---- MODULE Spec2Model ----
(***************************************************************************)
(* Model of t64fix: the T64 container (t64_image_t / t64_record_t), its    *)
(* parser (t64_open), the verify/repair engine (t64_verify), the writer    *)
(* (t64_write), the image constructor (t64_create), the extractor          *)
(* (prg_extract), the file I/O of base.c and the flow of main().           *)
(*                                                                         *)
(* The raw image is a sequence of bytes; C offset o is element o + 1.      *)
(***************************************************************************)
EXTENDS Integers, Sequences, FiniteSets, TLC

VARIABLES
    job,        \* what the run was started on: an image file or PRG files
    image,      \* the t64_image_t the caller holds, or NULL
    hist,       \* the calls made on the current image, oldest first
    prev,       \* the fields and records of the image before the last call
                \* (history variable; the data is left out)
    vlog,       \* per-record account of the last t64_verify, in offset order
    outfile,    \* the bytes of the file fwrite_wrapper wrote last, or NoFile
    origin,     \* the calls that produced the file the job names, <<>> for
                \* a file that this program did not write
    t64_errno,  \* the global error code of base.c
    ret,        \* what the last call returned: 1 / 0 for true / false and
                \* for an image / NULL, the fix count for t64_verify, Killed
                \* when the call did not return
    fio,        \* the stdio calls of the run, oldest first: <<call, path>>
    access,     \* the number of leading bytes of the buffer that the
                \* reads of t64_open extend over (0 before t64_open)
    outpath,    \* the path t64_write was given last: InPath, OutPath, NoPath
    prgfile,    \* the file prg_extract wrote, or NoFile
    xindex      \* the index prg_extract was given (0 before the call)

vars == <<job, image, hist, prev, vlog, outfile, origin,
          t64_errno, ret, fio, access, outpath, prgfile, xindex>>

-----------------------------------------------------------------------------
(* Bounds of the model *)

MaxRec == 2         \* largest record count in an input header / PRG list
MaxVerify == 2      \* t64_verify calls followed on one image

-----------------------------------------------------------------------------
(* t64.h: layout of the container *)

T64_HDR_MAGIC == 0
T64_HDR_MAGIC_LEN == 32
T64_HDR_VERSION == 32
T64_HDR_REC_MAX == 34
T64_HDR_REC_USED == 36
T64_HDR_NAME == 40
T64_HDR_NAME_LEN == 24
T64_RECORDS_OFFSET == 64
T64_RECORD_SIZE == 32
T64_REC_C64S_FILETYPE == 0
T64_REC_C1541_FILETYPE == 1
T64_REC_START_ADDR == 2
T64_REC_END_ADDR == 4
T64_REC_CONTENTS == 8
T64_REC_FILENAME == 16
T64_REC_FILENAME_LEN == 16

T64_REC_OK == "OK"
T64_REC_FIXED == "fixed"
T64_REC_SKIPPED == "skipped"

NULL == [null |-> TRUE]
NoFile == [nofile |-> TRUE]

\* value of an object that malloc(3) returned and nothing has assigned yet
Uninit == -1

\* base.h: t64_error_code_t
T64_ERR_NONE == 0
T64_ERR_IO == 2
T64_ERR_T64_INVALID == 3
T64_ERR_INDEX == 4

\* stdlib.h
EXIT_SUCCESS == 0
EXIT_FAILURE == 1

\* a call that ended the process with a signal instead of returning, and the
\* exit status the shell sees then (128 + SIGSEGV)
Killed == -1
EXIT_SIGNAL == 139

\* the paths of a run: the image given to main(), and another file
InPath == "in"
OutPath == "out"
NoPath == "none"

-----------------------------------------------------------------------------
(* base.c: little endian accessors, and the libc calls used on the buffer *)

get_uint16(d, o) == (d[o + 1] + 256 * d[o + 2]) % 65536

set_uint16(d, o, v) ==
    [d EXCEPT ![o + 1] = v % 256, ![o + 2] = (v \div 256) % 256]

get_uint32(d, o) == get_uint16(d, o) + 65536 * d[o + 3] + 16777216 * d[o + 4]

set_uint32(d, o, v) ==
    [set_uint16(d, o, v % 65536) EXCEPT ![o + 3] = (v \div 65536) % 256,
                                        ![o + 4] = (v \div 16777216) % 256]

\* memcpy(d + o, src, Len(src))
memcpy(d, o, src) ==
    LET n == IF o + Len(src) > Len(d) THEN Len(d) - o ELSE Len(src)
    IN  SubSeq(d, 1, o) \o SubSeq(src, 1, n) \o SubSeq(d, o + n + 1, Len(d))

\* the n bytes of d at offset o
bytes_at(d, o, n) == SubSeq(d, o + 1, o + n)

\* memcmp(s, d + o, strlen(s)) == 0
memcmp_eq(s, d, o) == \A i \in 1..Len(s) : d[o + i] = s[i]

Pad(s, n, b) == [i \in 1..n |-> IF i <= Len(s) THEN s[i] ELSE b]

-----------------------------------------------------------------------------
(* base.c: whole-file I/O.  io is what the file system does to the call:   *)
(* "ok", "nofile" (fopen fails) or "ioerr" (fread / fwrite comes short).   *)

IoOutcomes == {"ok", "nofile", "ioerr"}

\* fread_alloc as it would be if it returned the buffer without closing
\* the file (C19 must not hold of it)
fread_alloc_leaves_open(path, bytes, io, errno0) ==
    IF io = "nofile"
    THEN [len |-> -1, dest |-> NULL, errno |-> T64_ERR_IO,
          calls |-> << <<"fopen_rb_failed", path>> >>]
    ELSE IF io = "ioerr"
    THEN [len |-> -1, dest |-> NULL, errno |-> T64_ERR_IO,
          calls |-> << <<"fopen_rb", path>>, <<"fread_error", path>>,
                       <<"fclose", path>> >>]
    ELSE [len |-> Len(bytes),
          dest |-> IF Len(bytes) = 0 THEN NULL ELSE bytes,
          errno |-> errno0,
          calls |-> << <<"fopen_rb", path>>, <<"fread_eof", path>> >>]

\* fread_alloc(&dest, path) on a file with the given bytes: the returned
\* length, *dest (NULL for an empty file and on failure), the value of
\* t64_errno after the call and the stdio calls made
fread_alloc(path, bytes, io, errno0) ==
    IF io = "nofile"
    THEN [len |-> -1, dest |-> NULL, errno |-> T64_ERR_IO,
          calls |-> << <<"fopen_rb_failed", path>> >>]
    ELSE IF io = "ioerr"
    THEN [len |-> -1, dest |-> NULL, errno |-> T64_ERR_IO,
          calls |-> << <<"fopen_rb", path>>, <<"fread_error", path>>,
                       <<"fclose", path>> >>]
    ELSE [len |-> Len(bytes),
          dest |-> IF Len(bytes) = 0 THEN NULL ELSE bytes,
          errno |-> errno0,
          calls |-> << <<"fopen_rb", path>>, <<"fread_eof", path>>,
                       <<"fclose", path>> >>]

\* fwrite_wrapper(path, data, size): the result, the file at path after the
\* call (old is the file before it; "wb" truncates), t64_errno and the stdio
\* calls made
fwrite_wrapper(path, data, io, old, errno0) ==
    IF io = "nofile"
    THEN [result |-> FALSE, file |-> old, errno |-> T64_ERR_IO,
          calls |-> << <<"fopen_wb_failed", path>> >>]
    ELSE IF io = "ioerr"
    THEN [result |-> FALSE, file |-> SubSeq(data, 1, Len(data) - 1),
          errno |-> errno0,
          calls |-> << <<"fopen_wb", path>>, <<"fwrite_short", path>>,
                       <<"fclose", path>> >>]
    ELSE [result |-> TRUE, file |-> data, errno |-> errno0,
          calls |-> << <<"fopen_wb", path>>, <<"fwrite", path>>,
                       <<"fclose", path>> >>]

-----------------------------------------------------------------------------
(* The magic strings, as ASCII codes *)

\* "C64S tape image file"
c64s_magic_str ==
    <<67, 54, 52, 83, 32, 116, 97, 112, 101, 32,
      105, 109, 97, 103, 101, 32, 102, 105, 108, 101>>

\* char c64s_magic[T64_HDR_MAGIC_LEN]: the string padded with 0x00
c64s_magic == Pad(c64s_magic_str, T64_HDR_MAGIC_LEN, 0)

\* "C64S tape file" and "C64 tape image file"
magic_strings ==
    << c64s_magic_str,
       <<67, 54, 52, 83, 32, 116, 97, 112, 101, 32, 102, 105, 108, 101>>,
       <<67, 54, 52, 32, 116, 97, 112, 101, 32,
         105, 109, 97, 103, 101, 32, 102, 105, 108, 101>> >>

-----------------------------------------------------------------------------
(* Input images: every field is drawn from a small set and encoded into    *)
(* the bytes of the file, so that t64_open has to decode them again.       *)

\* the file data of the images of RecordImages
DataInput == <<1, 2>>
DataLen == Len(DataInput)

\* the 32 bytes found at offset 0 of an input
MagicInputs ==
    { c64s_magic,
      Pad(magic_strings[1], T64_HDR_MAGIC_LEN, 32),
      Pad(magic_strings[2], T64_HDR_MAGIC_LEN, 0),
      Pad(magic_strings[3], T64_HDR_MAGIC_LEN, 0),
      Pad(<<67, 54, 52, 83, 32, 116, 97, 112, 101>>, T64_HDR_MAGIC_LEN, 0) }

VersionInputs == {256, 257}

\* "TAPE" padded with spaces
TapeNameInput == Pad(<<84, 65, 80, 69>>, T64_HDR_NAME_LEN, 32)

\* "FILE" padded with spaces
FileNameInput == Pad(<<70, 73, 76, 69>>, T64_REC_FILENAME_LEN, 32)

\* <<C64S file type, C1541 file type>>
TypeInput0 == <<1, 130>>
TypeInputSnapshot == <<2, 1>>
TypeInputs == { <<1, 130>>, <<1, 127>>, <<1, 133>>, <<0, 128>>, <<1, 132>>, <<2, 1>> }

\* <<start address, end address>>
AddrInput0 == <<2049, 2050>>
AddrInputs == { <<2049, 2050>>, <<2049, 2051>>, <<2049, 2048>> }
AddrInputTop == <<65535, 0>>

DirEntry(t, a, off) ==
    [ctype |-> t[1], dtype |-> t[2], start |-> a[1], end |-> a[2], offset |-> off]

\* directory entries of an image whose file data starts at offset base
\* (the last one lies past the end of the file, the one before ends at the
\* top of the 64K address space)
RecInputs(base) ==
    { DirEntry(t, AddrInput0, base + 1) : t \in TypeInputs }
    \cup
    { DirEntry(TypeInput0, a, base) : a \in AddrInputs }
    \cup
    { DirEntry(TypeInputSnapshot, AddrInput0, base),
      DirEntry(TypeInput0, AddrInputTop, base),
      DirEntry(TypeInput0, AddrInput0, base + DataLen + 1) }

\* directory entry i of an image that needs no record fix: one byte per file
GoodEntry(i, base) == DirEntry(TypeInput0, AddrInput0, base + i - 1)

\* what the bytes hold that the format leaves unused (0x26-0x27 of the
\* header, +6..+7 and +0xC..+0xF of an entry)
UnusedInput(n) == [i \in 1..n |-> 170]

EncodeHeader(magic, version, m, u) ==
    magic \o <<version % 256, version \div 256>>
          \o <<m % 256, m \div 256>> \o <<u % 256, u \div 256>>
          \o UnusedInput(2) \o TapeNameInput

EncodeEntry(e) ==
    <<e.ctype, e.dtype>>
        \o <<e.start % 256, e.start \div 256>>
        \o <<e.end % 256, e.end \div 256>>
        \o UnusedInput(2)
        \o <<e.offset % 256, (e.offset \div 256) % 256, 0, 0>>
        \o UnusedInput(4)
        \o FileNameInput

RECURSIVE EncodeDir(_)
EncodeDir(es) ==
    IF es = <<>> THEN <<>> ELSE EncodeEntry(Head(es)) \o EncodeDir(Tail(es))

\* file data: byte k of the data region holds k
DataBytes(n) == [k \in 1..n |-> k]

Max(a, b) == IF a > b THEN a ELSE b

DataStart(d) == T64_RECORDS_OFFSET + d * T64_RECORD_SIZE

\* images with a canonical header and n directory entries of any content
RecordImages ==
    UNION { { EncodeHeader(c64s_magic, 257, n, n) \o EncodeDir(es) \o DataInput :
                es \in [1..n -> RecInputs(DataStart(n))] } : n \in 1..MaxRec }

\* images with any header and a directory of Max(1, m) contiguous one-byte files
HeaderImages ==
    { EncodeHeader(mg, v, mu[1], mu[2])
        \o EncodeDir([i \in 1..Max(1, mu[1]) |-> GoodEntry(i, DataStart(Max(1, mu[1])))])
        \o DataBytes(Max(1, mu[1])) :
        mg \in MagicInputs, v \in VersionInputs,
        mu \in (0..MaxRec) \X (0..(MaxRec + 1)) }

\* the lengths of the files that end before their directory does: an empty
\* file, one that ends inside the magic, inside the header (before the
\* count of used records), after the header and inside the first entry
ShortLens == {0, 4, 36, 64, 80}

\* the image of one good record, cut short
ShortImages ==
    { SubSeq(EncodeHeader(c64s_magic, 257, 1, 1)
                \o EncodeDir(<<GoodEntry(1, DataStart(1))>>) \o DataBytes(1),
             1, n) : n \in ShortLens }

\* an image of version 0x0100 with two entries out of offset order, one with
\* an illegal disk type and one with an end address that is too high
VersionImages ==
    { EncodeHeader(c64s_magic, 256, 2, 2)
        \o EncodeDir(<< DirEntry(<<1, 133>>, AddrInput0, DataStart(2) + 1),
                        DirEntry(TypeInput0, <<2049, 2051>>, DataStart(2)) >>)
        \o DataInput }

ImageInputs == RecordImages \cup HeaderImages \cup ShortImages \cup VersionImages

\* what a byte on the heap behind a buffer may hold
HeapInputs == {0, 1}

-----------------------------------------------------------------------------
(* t64.c: header *)

RECURSIVE check_magic_from(_, _)
check_magic_from(data, i) ==
    IF i > Len(magic_strings) THEN -1
    ELSE IF memcmp_eq(magic_strings[i], data, T64_HDR_MAGIC) THEN i - 1
    ELSE check_magic_from(data, i + 1)

\* index in magic_strings of the first string found at offset 0, or -1
t64_check_magic(img) == check_magic_from(img.data, 1)

t64_new ==
    [data |-> <<>>, size |-> 0, magic |-> Uninit, tapename |-> Uninit,
     version |-> Uninit, rec_max |-> 0, rec_used |-> 0, fixes |-> 0,
     records |-> <<>>]

\* t64_parse_header as it would be if the clamp of rec_used to rec_max did
\* not count a fix (C7 must not hold of it)
t64_parse_header_silent_clamp(img) ==
    LET result == t64_check_magic(img)
        f1 == img.fixes + (IF result > 0 THEN 1 ELSE 0)
        max0 == get_uint16(img.data, T64_HDR_REC_MAX)
        used0 == get_uint16(img.data, T64_HDR_REC_USED)
        max1 == IF max0 = 0 THEN 1 ELSE max0
        f2 == f1 + (IF max0 = 0 THEN 1 ELSE 0)
        used1 == IF used0 = 0 THEN 1 ELSE used0
        f3 == f2 + (IF used0 = 0 THEN 1 ELSE 0)
        used2 == IF used1 > max1 THEN max1 ELSE used1
    IN  [img EXCEPT !.magic = magic_strings[result + 1],
                    !.rec_max = max1,
                    !.rec_used = used2,
                    !.fixes = f3,
                    !.tapename = bytes_at(img.data, T64_HDR_NAME, T64_HDR_NAME_LEN),
                    !.version = get_uint16(img.data, T64_HDR_VERSION)]

\* the image after t64_parse_header returned true
t64_parse_header(img) ==
    LET result == t64_check_magic(img)
        f1 == img.fixes + (IF result > 0 THEN 1 ELSE 0)
        max0 == get_uint16(img.data, T64_HDR_REC_MAX)
        used0 == get_uint16(img.data, T64_HDR_REC_USED)
        max1 == IF max0 = 0 THEN 1 ELSE max0
        f2 == f1 + (IF max0 = 0 THEN 1 ELSE 0)
        used1 == IF used0 = 0 THEN 1 ELSE used0
        f3 == f2 + (IF used0 = 0 THEN 1 ELSE 0)
        used2 == IF used1 > max1 THEN max1 ELSE used1
        f4 == f3 + (IF used1 > max1 THEN 1 ELSE 0)
    IN  [img EXCEPT !.magic = magic_strings[result + 1],
                    !.rec_max = max1,
                    !.rec_used = used2,
                    !.fixes = f4,
                    !.tapename = bytes_at(img.data, T64_HDR_NAME, T64_HDR_NAME_LEN),
                    !.version = get_uint16(img.data, T64_HDR_VERSION)]

\* t64_write_header as it would be without the memcpy of c64s_magic
\* (C6 must not hold of it)
t64_write_header_keeps_magic(img) ==
    LET d2 == memcpy(img.data, T64_HDR_NAME, img.tapename)
        d3 == set_uint16(d2, T64_HDR_VERSION, 257)
        d4 == set_uint16(d3, T64_HDR_REC_MAX, img.rec_max)
    IN  set_uint16(d4, T64_HDR_REC_USED, img.rec_used)

\* t64_write_header as it would be if it wrote the version that was read
\* (C18 must not hold of it)
t64_write_header_keeps_version(img) ==
    LET d1 == memcpy(img.data, T64_HDR_MAGIC, c64s_magic)
        d2 == memcpy(d1, T64_HDR_NAME, img.tapename)
        d3 == set_uint16(d2, T64_HDR_VERSION,
                         IF img.version = Uninit THEN 257 ELSE img.version)
        d4 == set_uint16(d3, T64_HDR_REC_MAX, img.rec_max)
    IN  set_uint16(d4, T64_HDR_REC_USED, img.rec_used)

t64_write_header(img) ==
    LET d1 == memcpy(img.data, T64_HDR_MAGIC, c64s_magic)
        d2 == memcpy(d1, T64_HDR_NAME, img.tapename)
        d3 == set_uint16(d2, T64_HDR_VERSION, 257)
        d4 == set_uint16(d3, T64_HDR_REC_MAX, img.rec_max)
    IN  set_uint16(d4, T64_HDR_REC_USED, img.rec_used)

-----------------------------------------------------------------------------
(* t64.c: records *)

compar_offset(r1, r2) ==
    IF r1.offset < r2.offset THEN -1
    ELSE IF r1.offset > r2.offset THEN 1 ELSE 0

\* compar_index as it would be if it compared the offsets again (C5 must
\* not hold of it)
compar_index_on_offset(r1, r2) ==
    IF r1.offset < r2.offset THEN -1
    ELSE IF r1.offset > r2.offset THEN 1 ELSE 0

compar_index(r1, r2) ==
    IF r1.index < r2.index THEN -1
    ELSE IF r1.index > r2.index THEN 1 ELSE 0

compar(f, r1, r2) ==
    IF f = "offset" THEN compar_offset(r1, r2) ELSE compar_index(r1, r2)

\* qsort(3) leaves the order of elements that compare equal unspecified: a
\* call keeps it (t = "stable") or reverses it (t = "reverse")
TiePolicies == {"stable", "reverse"}

RECURSIVE qsort_insert(_, _, _, _)
qsort_insert(x, s, f, t) ==
    IF s = <<>> THEN <<x>>
    ELSE LET c == compar(f, Head(s), x)
         IN  IF c < 0 \/ (c = 0 /\ t = "stable")
             THEN <<Head(s)>> \o qsort_insert(x, Tail(s), f, t)
             ELSE <<x>> \o s

RECURSIVE qsort(_, _, _)
qsort(s, f, t) ==
    IF s = <<>> THEN <<>>
    ELSE qsort_insert(s[Len(s)], qsort(SubSeq(s, 1, Len(s) - 1), f, t), f, t)

\* record read from the 32 bytes at offset o; real_end_addr is not assigned
t64_read_record(data, o) ==
    [filename |-> bytes_at(data, o + T64_REC_FILENAME, T64_REC_FILENAME_LEN),
     offset |-> get_uint32(data, o + T64_REC_CONTENTS),
     start_addr |-> get_uint16(data, o + T64_REC_START_ADDR),
     end_addr |-> get_uint16(data, o + T64_REC_END_ADDR),
     real_end_addr |-> Uninit,
     c64s_ftype |-> data[o + T64_REC_C64S_FILETYPE + 1],
     c1541_ftype |-> data[o + T64_REC_C1541_FILETYPE + 1],
     index |-> 0,
     status |-> T64_REC_OK]

\* t64_write_record as it would be if it cleared the 32 bytes of the entry
\* before storing the fields (C27 must not hold of it)
t64_write_record_clears_entry(record, real_end, data, o) ==
    LET d0 == memcpy(data, o, [i \in 1..T64_RECORD_SIZE |-> 0])
        d1 == [d0 EXCEPT ![o + T64_REC_C64S_FILETYPE + 1] = record.c64s_ftype,
                         ![o + T64_REC_C1541_FILETYPE + 1] = record.c1541_ftype]
        d2 == set_uint16(d1, o + T64_REC_START_ADDR, record.start_addr)
        d3 == set_uint16(d2, o + T64_REC_END_ADDR, real_end)
        d4 == set_uint32(d3, o + T64_REC_CONTENTS, record.offset)
    IN  memcpy(d4, o + T64_REC_FILENAME, record.filename)

\* real_end is the value the read of record.real_end_addr yields
t64_write_record(record, real_end, data, o) ==
    LET d1 == [data EXCEPT ![o + T64_REC_C64S_FILETYPE + 1] = record.c64s_ftype,
                           ![o + T64_REC_C1541_FILETYPE + 1] = record.c1541_ftype]
        d2 == set_uint16(d1, o + T64_REC_START_ADDR, record.start_addr)
        d3 == set_uint16(d2, o + T64_REC_END_ADDR, real_end)
        d4 == set_uint32(d3, o + T64_REC_CONTENTS, record.offset)
    IN  memcpy(d4, o + T64_REC_FILENAME, record.filename)

-----------------------------------------------------------------------------
(* t64.c: t64_open *)

\* what reads of the first n bytes at buf see: t64_open checks no length, so
\* behind the end of a shorter buffer they see the heap (pad)
over_read(buf, n, pad) == IF Len(buf) >= n THEN buf ELSE Pad(buf, n, pad)

\* the image t64_open returns for the buffer that fread_alloc filled with a
\* file of at least one byte, or NULL
t64_open(file, pad) ==
    LET mem0 == over_read(file, T64_RECORDS_OFFSET, pad)
        img0 == [t64_new EXCEPT !.data = mem0, !.size = Len(file)]
    IN  IF t64_check_magic(img0) < 0 THEN NULL
        ELSE LET img1 == t64_parse_header(img0)
                 mem1 == over_read(file,
                            T64_RECORDS_OFFSET + img1.rec_used * T64_RECORD_SIZE,
                            pad)
             IN  [img1 EXCEPT !.data = file,
                              !.records =
                    [i \in 1..img1.rec_used |->
                        [t64_read_record(mem1,
                            T64_RECORDS_OFFSET + (i - 1) * T64_RECORD_SIZE)
                         EXCEPT !.index = i - 1]]]

\* the longest of the strings that t64_check_magic compares with the buffer
magic_extent == Max(Len(magic_strings[1]),
                    Max(Len(magic_strings[2]), Len(magic_strings[3])))

\* the number of leading bytes of the buffer that the reads of t64_open
\* extend over: the magic strings, and for a recognised image the header
\* and rec_used directory entries
t64_open_access(file, pad) ==
    LET img == t64_open(file, pad)
    IN  IF img = NULL THEN magic_extent
        ELSE T64_RECORDS_OFFSET + img.rec_used * T64_RECORD_SIZE

-----------------------------------------------------------------------------
(* t64.c: t64_verify *)

\* size_lt as it would be if the sizes were signed (C2 must not hold of it)
size_lt_signed(a, b) == a < b

\* A size_t value is held as the integer it is congruent to modulo 2^64 that
\* lies nearest to 0: the cast of a negative int stays negative here and
\* stands for 2^64 minus its magnitude.  size_lt is < on the size_t values.
size_lt(a, b) ==
    IF (a < 0) = (b < 0) THEN a < b ELSE b < 0

\* is_snapshot as it would be with the bound one too high (C10 must not hold
\* of it)
is_snapshot_above_2(record) == record.c64s_ftype > 2

\* record->c64s_ftype > 0x01
is_snapshot(record) == record.c64s_ftype > 1

\* illegal_c1541_ftype as it would be with > for >= (C9 must not hold of it)
illegal_c1541_ftype_above_85(t) == t < 128 \/ t > 133

\* record->c1541_ftype < 0x80 || record->c1541_ftype >= 0x85
illegal_c1541_ftype(t) == t < 128 \/ t >= 133

\* rec_size = (size_t)(record->end_addr - record->start_addr)
rec_size(record) == record.end_addr - record.start_addr

\* act_size as it would be if every record were measured against the end of
\* the file (C1 must not hold of it)
act_size_to_end(sorted, i, n, size) == size - sorted[i].offset

\* act_size of the record at position i (from 1) of the sorted records
act_size(sorted, i, n, size) ==
    IF i < n THEN sorted[i + 1].offset - sorted[i].offset
    ELSE size - sorted[i].offset

\* (unsigned short)(record->start_addr + act_size)
fixed_end_addr(record, act) == (record.start_addr + act) % 65536

\* verify_record as it would be if a fix were stored in end_addr as well
\* (C26 must not hold of it)
verify_record_fixes_end_addr(sorted, i, n, size) ==
    LET record == sorted[i]
    IN  IF is_snapshot(record)
        THEN [rec |-> [record EXCEPT !.status = T64_REC_SKIPPED],
              tfix |-> 0, efix |-> 0]
        ELSE
          LET bad == illegal_c1541_ftype(record.c1541_ftype)
              r1 == IF bad
                    THEN [record EXCEPT !.c1541_ftype = 130,
                                        !.status = T64_REC_FIXED]
                    ELSE record
              tf == IF bad THEN 1 ELSE 0
              rs == rec_size(r1)
              as == act_size(sorted, i, n, size)
          IN  IF rs # as
              THEN IF i = n /\ size_lt(rs, as)
                   THEN [rec |-> r1, tfix |-> tf, efix |-> 0]
                   ELSE [rec |-> [r1 EXCEPT !.status = T64_REC_FIXED,
                                            !.end_addr = fixed_end_addr(r1, as),
                                            !.real_end_addr = fixed_end_addr(r1, as)],
                         tfix |-> tf, efix |-> 1]
              ELSE [rec |-> [r1 EXCEPT !.real_end_addr = r1.end_addr],
                    tfix |-> tf, efix |-> 0]

\* one pass of the loop body on the record at position i of the sorted
\* records: the record it leaves, and the fixes it counted for the type byte
\* (tfix) and for the end address (efix)
verify_record(sorted, i, n, size) ==
    LET record == sorted[i]
    IN  IF is_snapshot(record)
        THEN [rec |-> [record EXCEPT !.status = T64_REC_SKIPPED],
              tfix |-> 0, efix |-> 0]
        ELSE
          LET bad == illegal_c1541_ftype(record.c1541_ftype)
              r1 == IF bad
                    THEN [record EXCEPT !.c1541_ftype = 130,
                                        !.status = T64_REC_FIXED]
                    ELSE record
              tf == IF bad THEN 1 ELSE 0
              rs == rec_size(r1)
              as == act_size(sorted, i, n, size)
          IN  IF rs # as
              THEN IF i = n /\ size_lt(rs, as)
                   THEN [rec |-> r1, tfix |-> tf, efix |-> 0]
                   ELSE [rec |-> [r1 EXCEPT !.status = T64_REC_FIXED,
                                            !.real_end_addr = fixed_end_addr(r1, as)],
                         tfix |-> tf, efix |-> 1]
              ELSE [rec |-> [r1 EXCEPT !.real_end_addr = r1.end_addr],
                    tfix |-> tf, efix |-> 0]

RECURSIVE sum_fixes(_)
sum_fixes(steps) ==
    IF steps = <<>> THEN 0
    ELSE Head(steps).tfix + Head(steps).efix + sum_fixes(Tail(steps))

\* the whole call, t1 and t2 being what the two qsort calls do with equal
\* elements: [image |-> the image it leaves, steps |-> the account of
\* the loop, one entry per record in offset order with the record before
\* (pre) and after (rec) the loop body]
t64_verify(img, t1, t2) ==
    LET max1 == IF img.rec_max = 0 THEN 1 ELSE img.rec_max
        f1 == img.fixes + (IF img.rec_max = 0 THEN 1 ELSE 0)
        used1 == IF img.rec_used = 0 THEN 1 ELSE img.rec_used
        f2 == f1 + (IF img.rec_used = 0 THEN 1 ELSE 0)
        sorted == qsort(SubSeq(img.records, 1, used1), "offset", t1)
        steps == [i \in 1..used1 |->
                    [pre |-> sorted[i]] @@ verify_record(sorted, i, used1, img.size)]
        fixed == [i \in 1..used1 |-> steps[i].rec]
        restored == qsort(fixed, "index", t2)
    IN  [image |-> [img EXCEPT !.rec_max = max1,
                               !.rec_used = used1,
                               !.fixes = f2 + sum_fixes(steps),
                               !.records = restored],
         steps |-> steps]

-----------------------------------------------------------------------------
(* t64.c: t64_write *)

\* values a read of an unassigned real_end_addr is followed for
GarbageInputs == {0, 50118}

RECURSIVE write_records(_, _, _, _)
write_records(img, reads, data, i) ==
    IF i > img.rec_used THEN data
    ELSE write_records(img, reads,
            t64_write_record(img.records[i], reads[i], data,
                T64_RECORDS_OFFSET + (i - 1) * T64_RECORD_SIZE),
            i + 1)

\* image->data after the header and the rec_used records have been stored;
\* reads[i] is what the read of records[i].real_end_addr yields
t64_write(img, reads) == write_records(img, reads, t64_write_header(img), 1)

\* the possible results of reading every record's real_end_addr: the value
\* assigned last, or any value when none was
real_end_reads(img) ==
    { reads \in [1..img.rec_used ->
                    GarbageInputs \cup { img.records[i].real_end_addr :
                                            i \in 1..img.rec_used }] :
        \A i \in 1..img.rec_used :
            IF img.records[i].real_end_addr = Uninit
            THEN reads[i] \in GarbageInputs
            ELSE reads[i] = img.records[i].real_end_addr }

-----------------------------------------------------------------------------
(* prg.c: prg_extract, and fwrite_prg of base.c *)

\* the path of the file prg_extract writes (its name is made from the
\* filename of the record; the model keeps one path for all)
PrgPath == "prg"

\* fwrite_prg(path, image->data + offset, size, start): size is a size_t,
\* kept as the int it was converted from (negative stands for size + 2^64).
\* The file holds the load address and the bytes of the range that lie in
\* the image; inside tells whether the whole range does.
fwrite_prg(data, offset, size, start, io, errno0) ==
    LET avail == IF offset < Len(data) THEN Len(data) - offset ELSE 0
        n == IF size < 0 \/ size > avail THEN avail ELSE size
        inside == size >= 0 /\ offset <= Len(data) /\ size <= Len(data) - offset
    IN  IF io = "nofile"
        THEN [result |-> FALSE, file |-> NoFile, errno |-> T64_ERR_IO,
              calls |-> << <<"fopen_wb_failed", PrgPath>> >>]
        ELSE IF io = "ioerr"
        THEN [result |-> FALSE,
              file |-> [bytes |-> <<>>, size |-> size, inside |-> inside],
              errno |-> errno0,
              calls |-> << <<"fopen_wb", PrgPath>>, <<"fputc_eof", PrgPath>>,
                           <<"fclose", PrgPath>> >>]
        ELSE [result |-> TRUE,
              file |-> [bytes |-> <<start % 256, (start \div 256) % 256>>
                                    \o SubSeq(data, offset + 1, offset + n),
                        size |-> size, inside |-> inside],
              errno |-> errno0,
              calls |-> << <<"fopen_wb", PrgPath>>, <<"fwrite", PrgPath>>,
                           <<"fclose", PrgPath>> >>]

\* prg_extract as it would be if it accepted index = rec_used (C16 must not
\* hold of it)
prg_extract_off_by_one(img, index, real_end, io, errno0) ==
    IF index < 0 \/ index > img.rec_used
    THEN [result |-> FALSE, file |-> NoFile, errno |-> T64_ERR_INDEX,
          calls |-> <<>>]
    ELSE IF index = img.rec_used
    THEN [result |-> TRUE, file |-> NoFile, errno |-> errno0, calls |-> <<>>]
    ELSE LET record == img.records[index + 1]
         IN  IF record.c64s_ftype > 1 \/ record.c1541_ftype = 0
             THEN [result |-> TRUE, file |-> NoFile, errno |-> errno0,
                   calls |-> <<>>]
             ELSE fwrite_prg(img.data, record.offset,
                             real_end - record.start_addr, record.start_addr,
                             io, errno0)

\* prg_extract(image, index, quiet): the result, the file written (NoFile
\* when none is), t64_errno and the stdio calls made; real_end is what the
\* read of the record's real_end_addr yields
prg_extract(img, index, real_end, io, errno0) ==
    IF index < 0 \/ index >= img.rec_used
    THEN [result |-> FALSE, file |-> NoFile, errno |-> T64_ERR_INDEX,
          calls |-> <<>>]
    ELSE LET record == img.records[index + 1]
         IN  IF record.c64s_ftype > 1 \/ record.c1541_ftype = 0
             THEN [result |-> TRUE, file |-> NoFile, errno |-> errno0,
                   calls |-> <<>>]
             ELSE fwrite_prg(img.data, record.offset,
                             real_end - record.start_addr, record.start_addr,
                             io, errno0)

\* the possible results of reading one record's real_end_addr
real_end_read(record) ==
    IF record.real_end_addr = Uninit THEN GarbageInputs
    ELSE {record.real_end_addr}

-----------------------------------------------------------------------------
(* base.c, petasc.c: names.  A path is the sequence of its characters. *)

is_path_separator(c) == c = 47

RECURSIVE scan_separator(_, _)
\* while (p >= path && !is_path_separator(*p)) p--;  from position p
scan_separator(path, p) ==
    IF p < 1 \/ is_path_separator(path[p]) THEN p
    ELSE scan_separator(path, p - 1)

RECURSIVE scan_dot(_, _, _)
\* while (x >= p) { if (*x == '.') break; x--; }  from position x
scan_dot(path, p, x) ==
    IF x < p \/ path[x] = 46 THEN x
    ELSE scan_dot(path, p, x - 1)

\* base_basename(path, &ext) for a non-empty path: the positions in path at
\* which the returned string and *ext start.  Without a '.' in the base name
\* *ext is the last character of the path, not its terminator.
base_basename(path) ==
    LET end == Len(path)
        p0 == scan_separator(path, end)
        p == IF p0 < 1 THEN 1 ELSE p0 + 1
        x == scan_dot(path, p, end)
    IN  [name |-> p,
         ext |-> IF x < p THEN end ELSE x + 1]

\* strlen of the string that starts at position k of path
strlen_from(path, k) == Len(path) - k + 1

asc_to_pet(c) ==
    IF c >= 65 /\ c <= 90 THEN c + 128
    ELSE IF c = 96 THEN 39
    ELSE IF c >= 97 /\ c <= 122 THEN c - 32
    ELSE IF c >= 192 /\ c <= 223 THEN c - 96
    ELSE c

\* asc_to_pet_str(pet, asc, n), asc given from position k of path
asc_to_pet_str(path, k, n) ==
    [i \in 1..n |-> IF k + i - 1 <= Len(path) THEN asc_to_pet(path[k + i - 1]) ELSE 0]

-----------------------------------------------------------------------------
(* t64.c: t64_create *)

CBMDOS_FILENAME_MAX == 16
CBMDOS_FILETYPE_PRG == 2
CBMDOS_CLOSED_MASK == 128

\* "a.prg" and "d/B"
PrgPathInputs == { <<97, 46, 112, 114, 103>>, <<100, 47, 66>> }
PayloadLens == {0, 1, 2}

Prg(pa, la, n) == [path |-> pa, bytes |-> <<la % 256, la \div 256>> \o DataBytes(n)]

PrgInputs ==
    { Prg(pa, 2049, n) : pa \in PrgPathInputs, n \in PayloadLens }
    \cup
    { Prg(<<97, 46, 112, 114, 103>>, 65535, 1) }

\* "x.t64", "d/tape" and "ab"
DestPathInputs ==
    { <<120, 46, 116, 54, 52>>, <<100, 47, 116, 97, 112, 101>>, <<97, 98>> }

\* create_record as it would be if the end address were not truncated to 16
\* bits (C11 must not hold of it)
create_record_no_wrap(prg, size) ==
    LET len == Len(prg.bytes)
        start == get_uint16(prg.bytes, 0)
        end == len - 2 + start
    IN  [filename |-> asc_to_pet_str(prg.path, base_basename(prg.path).name,
                                     CBMDOS_FILENAME_MAX),
         offset |-> size,
         start_addr |-> start,
         end_addr |-> end,
         real_end_addr |-> end,
         c64s_ftype |-> 1,
         c1541_ftype |-> CBMDOS_FILETYPE_PRG + CBMDOS_CLOSED_MASK,
         index |-> 0,
         status |-> T64_REC_OK]

\* the record of the loop body for one PRG file, with the image data at size
create_record(prg, size) ==
    LET len == Len(prg.bytes)
        start == get_uint16(prg.bytes, 0)
        end == (len - 2 + start) % 65536
    IN  [filename |-> asc_to_pet_str(prg.path, base_basename(prg.path).name,
                                     CBMDOS_FILENAME_MAX),
         offset |-> size,
         start_addr |-> start,
         end_addr |-> end,
         real_end_addr |-> end,
         c64s_ftype |-> 1,
         c1541_ftype |-> CBMDOS_FILETYPE_PRG + CBMDOS_CLOSED_MASK,
         index |-> 0,
         status |-> T64_REC_OK]

RECURSIVE create_add(_, _, _)
\* the loop over args from position n (from 1)
create_add(img, prgs, n) ==
    IF n > Len(prgs) THEN img
    ELSE create_add(
            [img EXCEPT !.records = Append(@, create_record(prgs[n], img.size)),
                        !.data = @ \o SubSeq(prgs[n].bytes, 3, Len(prgs[n].bytes)),
                        !.size = @ + Len(prgs[n].bytes) - 2],
            prgs, n + 1)

\* the tape name t64_create derives from the path of the image (for a base
\* name of one character without '.' img_name_len wraps and memcpy reads
\* past the string: DestPathInputs has no such path)
create_tapename(path) ==
    LET b == base_basename(path)
        name_len == strlen_from(path, b.name)
        ext_len == strlen_from(path, b.ext)
        len0 == IF b.ext > Len(path) THEN name_len ELSE name_len - ext_len - 1
        len == IF len0 > T64_HDR_NAME_LEN THEN T64_HDR_NAME_LEN ELSE len0
    IN  [i \in 1..T64_HDR_NAME_LEN |->
            IF i <= len THEN path[b.name + i - 1] ELSE 32]

\* t64_create as it would be if a file that cannot be read ended the loop
\* and the image built so far were returned (C17 must not hold of it)
t64_create_keeps_partial(path, prgs, bad) ==
    LET nargs == Len(prgs)
        read == IF bad > 0 THEN SubSeq(prgs, 1, bad - 1) ELSE prgs
        data_offset == T64_RECORDS_OFFSET + nargs * T64_RECORD_SIZE
        img0 == [t64_new EXCEPT !.data = [i \in 1..data_offset |-> 0],
                                !.size = data_offset]
        img1 == create_add(img0, read, 1)
    IN  [img1 EXCEPT !.rec_used = Len(read),
                     !.rec_max = Len(read),
                     !.tapename = create_tapename(path)]

\* t64_create as it would be if it did not set rec_max (C8 must not hold of
\* it)
t64_create_no_rec_max(path, prgs, bad) ==
    IF bad > 0 THEN NULL ELSE
    LET nargs == Len(prgs)
        data_offset == T64_RECORDS_OFFSET + nargs * T64_RECORD_SIZE
        img0 == [t64_new EXCEPT !.data = [i \in 1..data_offset |-> 0],
                                !.size = data_offset]
        img1 == create_add(img0, prgs, 1)
    IN  [img1 EXCEPT !.rec_used = nargs % 65536,
                     !.tapename = create_tapename(path)]

\* bad is the position in args of the first file that fread_alloc fails to
\* read, 0 when all are read
t64_create(path, prgs, bad) ==
    IF bad > 0 THEN NULL ELSE
    LET nargs == Len(prgs)
        data_offset == T64_RECORDS_OFFSET + nargs * T64_RECORD_SIZE
        img0 == [t64_new EXCEPT !.data = [i \in 1..data_offset |-> 0],
                                !.size = data_offset]
        img1 == create_add(img0, prgs, 1)
    IN  [img1 EXCEPT !.rec_used = nargs % 65536,
                     !.rec_max = nargs % 65536,
                     !.tapename = create_tapename(path)]

CreateJobs ==
    UNION { { [kind |-> "create", path |-> pa, prgs |-> ps] :
                pa \in DestPathInputs, ps \in [1..n -> PrgInputs] } : n \in 1..MaxRec }

OpenJobs == { [kind |-> "open", file |-> f] : f \in ImageInputs }

-----------------------------------------------------------------------------
(* The calls a run makes *)

RECURSIVE count(_, _)
count(h, op) ==
    IF h = <<>> THEN 0
    ELSE (IF Head(h) = op THEN 1 ELSE 0) + count(Tail(h), op)

\* prev for a call on img
Before(img) == IF img = NULL THEN NULL ELSE [img EXCEPT !.data = <<>>]

B2N(b) == IF b THEN 1 ELSE 0

\* the calls of all fread_alloc calls of t64_create: the files before bad
\* are read, file bad fails with io
RECURSIVE create_calls(_, _, _, _)
create_calls(n, bad, io, k) ==
    IF k > n THEN <<>>
    ELSE IF k = bad THEN fread_alloc(<<"arg", k>>, <<>>, io, 0).calls
    ELSE fread_alloc(<<"arg", k>>, <<>>, "ok", 0).calls
            \o create_calls(n, bad, io, k + 1)

\* the run can call t64_verify, t64_write and prg_extract: it holds an image
\* whose parsing stayed inside the buffer (a run that read outside it has
\* undefined behaviour and is followed no further), the last t64_write did
\* not fail and prg_extract has not been called
CanCall ==
    /\ image # NULL
    /\ access <= image.size
    /\ hist[Len(hist)] # "extract"
    /\ ~(hist[Len(hist)] = "write" /\ ret = 0)

\* the calls after which main() calls t64_write
MainWrites(h) == h = <<"open", "verify">> \/ h = <<"create">>

Init ==
    /\ job \in OpenJobs \cup CreateJobs
    /\ image = NULL
    /\ hist = <<>>
    /\ prev = NULL
    /\ vlog = <<>>
    /\ outfile = NoFile
    /\ origin = <<>>
    /\ t64_errno = T64_ERR_NONE
    /\ ret = 0
    /\ fio = <<>>
    /\ access = 0
    /\ outpath = NoPath
    /\ prgfile = NoFile
    /\ xindex = 0

\* t64_open on the file the job names
Open ==
    /\ hist = <<>>
    /\ job.kind = "open"
    /\ \E io \in IoOutcomes, pad \in HeapInputs :
        LET f == fread_alloc(InPath, job.file, io, t64_errno)
        IN  /\ fio' = f.calls
            /\ t64_errno' = f.errno
            /\ IF f.len < 0
               THEN image' = NULL /\ ret' = 0 /\ access' = 0
               ELSE IF f.dest = NULL
               \* memcmp on the null pointer of an empty file
               THEN image' = NULL /\ ret' = Killed /\ access' = magic_extent
               ELSE /\ image' = t64_open(f.dest, pad)
                    /\ ret' = B2N(image' # NULL)
                    /\ access' = t64_open_access(f.dest, pad)
    /\ hist' = <<"open">>
    /\ prev' = Before(image)
    /\ UNCHANGED <<job, vlog, outfile, origin, outpath, prgfile, xindex>>

Create ==
    /\ hist = <<>>
    /\ job.kind = "create"
    /\ \E bad \in 0..Len(job.prgs), io \in IoOutcomes :
        /\ (bad = 0) = (io = "ok")
        /\ image' = t64_create(job.path, job.prgs, bad)
        /\ ret' = B2N(image' # NULL)
        /\ t64_errno' = IF bad = 0 THEN t64_errno ELSE T64_ERR_IO
        /\ fio' = create_calls(Len(job.prgs), bad, io, 1)
    /\ hist' = <<"create">>
    /\ prev' = Before(image)
    /\ UNCHANGED <<job, vlog, outfile, origin, access, outpath, prgfile, xindex>>

\* t64_verify, up to MaxVerify times in a row on an image
Verify ==
    /\ CanCall
    /\ \A i \in 2..Len(hist) : hist[i] = "verify"
    /\ count(hist, "verify") < MaxVerify
    /\ \E t1, t2 \in TiePolicies :
        LET v == t64_verify(image, t1, t2)
        IN  /\ image' = v.image
            /\ vlog' = v.steps
            /\ ret' = v.image.fixes
    /\ hist' = Append(hist, "verify")
    /\ prev' = Before(image)
    /\ UNCHANGED <<job, outfile, origin, t64_errno, fio, access, outpath,
                   prgfile, xindex>>

\* main() calls t64_write on an image of t64_open after t64_verify, and on
\* an image of t64_create at once.  Failures of the file system are followed
\* for those calls, and so is the output path that is the input path.  The
\* call is followed on a verified image of t64_create as well, and in the
\* first run only.
Write ==
    /\ CanCall
    /\ origin = <<>>
    /\ MainWrites(hist) \/ hist = <<"create", "verify">>
    /\ \E reads \in real_end_reads(image), io \in IoOutcomes,
          path \in {InPath, OutPath} :
        /\ io # "ok" => MainWrites(hist)
        /\ path = InPath => (hist = <<"open", "verify">> /\ origin = <<>>)
        /\ LET data == t64_write(image, reads)
               w == fwrite_wrapper(path, data, io,
                        IF path = InPath THEN job.file ELSE outfile,
                        t64_errno)
           IN  /\ image' = [image EXCEPT !.data = data]
               /\ outfile' = w.file
               /\ ret' = B2N(w.result)
               /\ t64_errno' = w.errno
               /\ fio' = fio \o w.calls
               /\ outpath' = path
    /\ hist' = Append(hist, "write")
    /\ prev' = Before(image)
    /\ UNCHANGED <<job, vlog, origin, access, prgfile, xindex>>

\* prg_extract, where main() calls it when no output image is asked for;
\* failures of the file system are followed in the first run
Extract ==
    /\ CanCall
    /\ hist = <<"open", "verify">>
    /\ \E index \in (-1)..image.rec_used, io \in IoOutcomes :
        /\ io # "ok" => origin = <<>>
        /\ \E real_end \in (IF index \in 0..(image.rec_used - 1)
                         THEN real_end_read(image.records[index + 1])
                         ELSE {0}) :
            LET x == prg_extract(image, index, real_end, io, t64_errno)
            IN  /\ prgfile' = x.file
                /\ ret' = B2N(x.result)
                /\ t64_errno' = x.errno
                /\ fio' = fio \o x.calls
                /\ xindex' = index
    /\ hist' = Append(hist, "extract")
    /\ prev' = Before(image)
    /\ UNCHANGED <<job, image, vlog, outfile, origin, access, outpath>>

\* the program is run again, on the image that a run of main() has written
\* to another path: the old image is freed and t64_open reads the written
\* file (the job keeps the PRG files that a created image was made of)
Reopen ==
    /\ origin = <<>>
    /\ hist \in { <<"open", "verify", "write">>, <<"create", "write">> }
    /\ ret = 1
    /\ outpath = OutPath
    /\ job' = IF job.kind = "create"
               THEN [kind |-> "open", file |-> outfile, prgs |-> job.prgs]
               ELSE [kind |-> "open", file |-> outfile]
    /\ origin' = hist
    /\ image' = t64_open(outfile, 0)
    /\ access' = t64_open_access(outfile, 0)
    /\ fio' = fread_alloc(InPath, outfile, "ok", T64_ERR_NONE).calls
    /\ t64_errno' = T64_ERR_NONE
    /\ ret' = 1
    /\ hist' = <<"open">>
    /\ prev' = NULL
    /\ vlog' = <<>>
    /\ outpath' = NoPath
    /\ prgfile' = NoFile
    /\ UNCHANGED <<outfile, xindex>>

\* the exit status of the run when main() has made the calls of hist and
\* returns: from --create, EXIT_FAILURE only when t64_write failed; otherwise
\* EXIT_FAILURE without an image, and result == 0 ? EXIT_SUCCESS :
\* EXIT_FAILURE with result the fix count that t64_verify returned
main_return ==
    IF hist[1] = "create"
    THEN IF image # NULL /\ hist[Len(hist)] = "write" /\ ret = 0
         THEN EXIT_FAILURE
         ELSE EXIT_SUCCESS
    ELSE IF ret = Killed THEN EXIT_SIGNAL
    ELSE IF image = NULL THEN EXIT_FAILURE
    ELSE IF image.fixes = 0 THEN EXIT_SUCCESS
    ELSE EXIT_FAILURE

\* main() can have made exactly the calls of hist: t64_open failed, or
\* t64_verify was called once and then at most one of t64_write and
\* prg_extract; or t64_create failed, or t64_write followed it
MainDone ==
    \/ hist = <<"open">> /\ image = NULL
    \/ hist \in { <<"open", "verify">>, <<"open", "verify", "write">>,
                  <<"open", "verify", "extract">> }
    \/ hist = <<"create">> /\ image = NULL
    \/ hist = <<"create", "write">>

Next == Open \/ Create \/ Verify \/ Write \/ Extract \/ Reopen

Spec == Init /\ [][Next]_vars

-----------------------------------------------------------------------------
(* Vocabulary of the properties *)

Last(h) == h[Len(h)]

\* t64_verify was the last call, on an image that t64_open returned
Verified == hist # <<>> /\ hist[1] = "open" /\ Last(hist) = "verify"

\* number of records the last t64_verify worked on
NLog == Len(vlog)

\* the record of the image that entry e of the log is about (t64_open gives
\* record i the index i)
ImgRec(e) == image.records[e.pre.index + 1]

\* the raw counts in the header of the file that was opened
RawMax == job.file[T64_HDR_REC_MAX + 1] + 256 * job.file[T64_HDR_REC_MAX + 2]
RawUsed == job.file[T64_HDR_REC_USED + 1] + 256 * job.file[T64_HDR_REC_USED + 2]

\* the file that was opened holds a whole header
HasHeader == Len(job.file) >= T64_RECORDS_OFFSET

\* s is found at offset 0 of the file that was opened
FileStartsWith(s) == SubSeq(job.file, 1, Len(s)) = s

Min(a, b) == IF a < b THEN a ELSE b

\* the three count adjustments of t64_open that change a value
CountFixes(m, u) == B2N(m = 0) + B2N(u = 0) + B2N(Max(1, u) > Max(1, m))

-----------------------------------------------------------------------------
(* C1: after t64_verify the log is in ascending offset order, and every    *)
(* non-snapshot record that is not last in it, with actual = successor's   *)
(* offset - own offset, has real_end_addr = end_addr and no end-address    *)
(* fix when end_addr - start_addr = actual, and otherwise real_end_addr =  *)
(* (start_addr + actual) mod 65536, status FIXED and one end-address fix;  *)
(* the fix counter rose by the fixes of the log.                           *)
C1_EndAddrNotLast ==
    Verified =>
        /\ \A i \in 1..(NLog - 1) : vlog[i].pre.offset <= vlog[i + 1].pre.offset
        /\ image.fixes = prev.fixes + sum_fixes(vlog)
        /\ \A i \in 1..(NLog - 1) :
            LET e == vlog[i]
                actual == vlog[i + 1].pre.offset - e.pre.offset
            IN  e.pre.c64s_ftype <= 1 =>
                    IF e.pre.end_addr - e.pre.start_addr = actual
                    THEN /\ ImgRec(e).real_end_addr = e.pre.end_addr
                         /\ e.efix = 0
                    ELSE /\ ImgRec(e).real_end_addr
                                = (e.pre.start_addr + actual) % 65536
                         /\ ImgRec(e).status = T64_REC_FIXED
                         /\ e.efix = 1

\* a record that is not last was fixed to an end address that wrapped
C1_Witness ==
    /\ Verified
    /\ \E i \in 1..(NLog - 1) :
        /\ vlog[i].efix = 1
        /\ vlog[i].pre.start_addr + vlog[i + 1].pre.offset - vlog[i].pre.offset > 65535
        /\ ImgRec(vlog[i]).real_end_addr = 0

\* a record that is not last had the right end address and was left alone
C1_WitnessEqual ==
    /\ Verified
    /\ \E i \in 1..(NLog - 1) :
        /\ vlog[i].pre.c64s_ftype <= 1
        /\ vlog[i].pre.index > vlog[i + 1].pre.index
        /\ vlog[i].efix = 0
        /\ ImgRec(vlog[i]).real_end_addr = vlog[i].pre.end_addr

(* C2: the non-snapshot record that is last in offset order and starts     *)
(* inside the file, with actual = size - offset and reported = end_addr -  *)
(* start_addr: reported = actual gives real_end_addr = end_addr and no     *)
(* end-address fix; 0 <= reported < actual gives no end-address fix, the   *)
(* status as the type-byte check left it and real_end_addr as it was;      *)
(* every other case gives real_end_addr = (start_addr + actual) mod 65536, *)
(* status FIXED and one end-address fix.                                   *)
C2_EndAddrLast ==
    Verified =>
        LET e == vlog[NLog]
            actual == image.size - e.pre.offset
            reported == e.pre.end_addr - e.pre.start_addr
        IN  (e.pre.c64s_ftype <= 1 /\ e.pre.offset <= image.size) =>
                IF reported = actual
                THEN /\ ImgRec(e).real_end_addr = e.pre.end_addr
                     /\ e.efix = 0
                ELSE IF 0 <= reported /\ reported < actual
                THEN /\ e.efix = 0
                     /\ ImgRec(e).status =
                            (IF e.tfix = 1 THEN T64_REC_FIXED ELSE e.pre.status)
                     /\ ImgRec(e).real_end_addr = e.pre.real_end_addr
                ELSE /\ ImgRec(e).real_end_addr
                            = (e.pre.start_addr + actual) % 65536
                     /\ ImgRec(e).status = T64_REC_FIXED
                     /\ e.efix = 1

\* the last record had end_addr < start_addr and was fixed
C2_Witness ==
    /\ Verified
    /\ vlog[NLog].pre.c64s_ftype <= 1
    /\ vlog[NLog].pre.offset <= image.size
    /\ vlog[NLog].pre.end_addr < vlog[NLog].pre.start_addr
    /\ vlog[NLog].efix = 1

\* the last record reported less than there is and was left alone
C2_WitnessPadded ==
    /\ Verified
    /\ vlog[NLog].pre.c64s_ftype <= 1
    /\ vlog[NLog].pre.end_addr - vlog[NLog].pre.start_addr
            < image.size - vlog[NLog].pre.offset
    /\ vlog[NLog].pre.end_addr >= vlog[NLog].pre.start_addr
    /\ vlog[NLog].pre.real_end_addr = Uninit
    /\ ImgRec(vlog[NLog]).real_end_addr = Uninit

(* C3: an image that t64_open returned, t64_verify repaired and t64_write  *)
(* wrote reports zero fixes when the written file is opened and verified.  *)
C3_RoundTripNoFixes ==
    (/\ origin = <<"open", "verify", "write">>
     /\ hist = <<"open", "verify">>
     /\ image # NULL) => image.fixes = 0

(* C4: a second t64_verify right after the first adds no fix and leaves    *)
(* every header field and every record as the first call left them.        *)
C4_VerifyIdempotent ==
    (/\ Len(hist) >= 3
     /\ hist[1] = "open"
     /\ hist[Len(hist)] = "verify"
     /\ hist[Len(hist) - 1] = "verify") =>
        /\ image.fixes = prev.fixes
        /\ image.records = prev.records
        /\ image.rec_max = prev.rec_max
        /\ image.rec_used = prev.rec_used
        /\ image.magic = prev.magic
        /\ image.tapename = prev.tapename
        /\ image.version = prev.version
        /\ image.size = prev.size

(* C5: after t64_verify on an image of t64_open the record at position i   *)
(* (from 0) has index i, whatever the data offsets are.                    *)
C5_OrderRestored ==
    Verified =>
        /\ Len(image.records) = image.rec_used
        /\ \A i \in 1..image.rec_used : image.records[i].index = i - 1

\* the offset sort had moved a record, and two records had the same offset
C5_Witness ==
    /\ Verified
    /\ \E i \in 1..NLog : vlog[i].pre.index # i - 1
    /\ \E i \in 1..(NLog - 1) : vlog[i].pre.offset = vlog[i + 1].pre.offset

C7_CountClamping ==
    (hist = <<"open">> /\ image # NULL /\ HasHeader) =>
        /\ image.rec_max = Max(1, RawMax)
        /\ image.rec_used = Min(Max(1, RawUsed), image.rec_max)
        /\ image.fixes = B2N(image.magic # c64s_magic_str)
                            + CountFixes(RawMax, RawUsed)

\* an image whose header says 0 records of 0 was opened: two fixes, no third
C7_Witness ==
    /\ hist = <<"open">>
    /\ origin = <<>>
    /\ image # NULL
    /\ HasHeader
    /\ RawMax = 0
    /\ RawUsed = 0
    /\ image.magic = c64s_magic_str
    /\ image.fixes = 2

\* an image whose header says more used records than there are was opened
C7_WitnessClamped ==
    /\ hist = <<"open">>
    /\ origin = <<>>
    /\ image # NULL
    /\ HasHeader
    /\ RawMax > 0
    /\ RawUsed > RawMax
    /\ image.rec_used = RawMax

(* C8: whenever the caller holds an image, 1 <= rec_used <= rec_max and    *)
(* the records collection holds rec_used records.                          *)
C8_CountsInvariant ==
    image # NULL =>
        /\ 1 <= image.rec_used
        /\ image.rec_used <= image.rec_max
        /\ Len(image.records) = image.rec_used

\* an image of t64_create has been verified and written
C8_Witness ==
    /\ image # NULL
    /\ hist = <<"create", "verify", "write">>
    /\ image.rec_used = MaxRec

\* an image whose header said 0 used records has been verified twice
C8_WitnessOpen ==
    /\ image # NULL
    /\ origin = <<>>
    /\ hist = <<"open", "verify", "verify">>
    /\ HasHeader
    /\ RawUsed = 0

(* C9: after t64_verify a non-snapshot record has the disk file type it    *)
(* had when that was in 0x80..0x84 and 0x82 otherwise; a replaced type     *)
(* byte gives status FIXED and one type-byte fix, a type byte in range     *)
(* gives no type-byte fix.                                                 *)
C9_TypeByte ==
    Verified =>
        \A i \in 1..NLog :
            LET e == vlog[i]
            IN  e.pre.c64s_ftype <= 1 =>
                    IF e.pre.c1541_ftype \in 128..132
                    THEN /\ ImgRec(e).c1541_ftype = e.pre.c1541_ftype
                         /\ e.tfix = 0
                    ELSE /\ ImgRec(e).c1541_ftype = 130
                         /\ ImgRec(e).status = T64_REC_FIXED
                         /\ e.tfix = 1

\* type bytes 0x85 and 0x7f were replaced and 0x80 and 0x84 were kept, in
\* first calls of t64_verify
C9_Witness ==
    /\ Verified
    /\ Len(hist) = 2
    /\ \E i \in 1..NLog : vlog[i].pre.c1541_ftype = 133 /\ vlog[i].tfix = 1
    /\ \E i \in 1..NLog : vlog[i].pre.c1541_ftype \in {128, 132} /\ vlog[i].tfix = 0

(* C10: t64_verify gives a record with C64S file type > 1 the status       *)
(* SKIPPED, leaves its disk file type, end_addr and real_end_addr as they  *)
(* were and counts no fix for it.                                          *)
C10_SnapshotSkipped ==
    Verified =>
        \A i \in 1..NLog :
            LET e == vlog[i]
            IN  e.pre.c64s_ftype > 1 =>
                    /\ ImgRec(e).status = T64_REC_SKIPPED
                    /\ ImgRec(e).c1541_ftype = e.pre.c1541_ftype
                    /\ ImgRec(e).end_addr = e.pre.end_addr
                    /\ ImgRec(e).real_end_addr = e.pre.real_end_addr
                    /\ e.tfix = 0
                    /\ e.efix = 0

\* a snapshot with the type byte 0x01 and a declared size that is not its
\* actual size was verified while another record was fixed
C10_Witness ==
    /\ Verified
    /\ \E i \in 1..(NLog - 1) :
        /\ vlog[i].pre.c64s_ftype = 2
        /\ vlog[i].pre.c1541_ftype = 1
        /\ vlog[i].pre.end_addr - vlog[i].pre.start_addr
                # vlog[i + 1].pre.offset - vlog[i].pre.offset
        /\ ImgRec(vlog[i]).status = T64_REC_SKIPPED
    /\ \E i \in 1..NLog : vlog[i].efix = 1

-----------------------------------------------------------------------------
(* Vocabulary of the properties about t64_create *)

\* t64_create was the only call, and it returned an image
Created == hist = <<"create">> /\ image # NULL

\* length of the k-th PRG file of the job
FileLen(k) == Len(job.prgs[k].bytes)

RECURSIVE PayloadBefore(_)
\* sum of L_j - 2 over the files j < k of the job
PayloadBefore(k) ==
    IF k <= 1 THEN 0 ELSE PayloadBefore(k - 1) + FileLen(k - 1) - 2

\* the first two bytes of the k-th file, little-endian
LoadAddr(k) == job.prgs[k].bytes[1] + 256 * job.prgs[k].bytes[2]

(* C11: t64_create on n >= 1 PRG files of lengths L_1..L_n >= 2 returns    *)
(* rec_used = rec_max = n, size = 0x40 + 32n + sum(L_i - 2), and record i  *)
(* with data offset 0x40 + 32n + sum over j < i of (L_j - 2), start_addr   *)
(* the file's load address, end_addr = real_end_addr = (start_addr + L_i - *)
(* 2) mod 65536, container type 1, disk type 0x82, and the file's bytes    *)
(* after the load address stored at the data offset.                       *)
C11_CreateLayout ==
    Created =>
        LET n == Len(job.prgs)
            base == 64 + 32 * n
        IN  /\ image.rec_used = n
            /\ image.rec_max = n
            /\ image.size = base + PayloadBefore(n + 1)
            /\ Len(image.data) = image.size
            /\ Len(image.records) = n
            /\ \A i \in 1..n :
                LET r == image.records[i]
                    off == base + PayloadBefore(i)
                IN  /\ r.offset = off
                    /\ r.start_addr = LoadAddr(i)
                    /\ r.end_addr = (LoadAddr(i) + FileLen(i) - 2) % 65536
                    /\ r.real_end_addr = r.end_addr
                    /\ r.c64s_ftype = 1
                    /\ r.c1541_ftype = 130
                    /\ SubSeq(image.data, off + 1, off + FileLen(i) - 2)
                            = SubSeq(job.prgs[i].bytes, 3, FileLen(i))

\* an image was created from MaxRec files, one of them with an end address
\* that wraps and one that holds its load address only
C11_Witness ==
    /\ Created
    /\ Len(job.prgs) = MaxRec
    /\ \E i \in 1..Len(job.prgs) :
        /\ LoadAddr(i) + FileLen(i) - 2 > 65535
        /\ image.records[i].end_addr = 0
    /\ \E i \in 1..Len(job.prgs) : FileLen(i) = 2

(* C12: on every image that t64_create returned t64_verify reports zero    *)
(* fixes and leaves every record as t64_create made it.                    *)
C12_CreatedVerifyClean ==
    (hist = <<"create", "verify">> /\ image # NULL) =>
        /\ image.fixes = 0
        /\ Len(image.records) = Len(prev.records)
        /\ \A i \in 1..Len(prev.records) :
            \E j \in 1..Len(image.records) : image.records[j] = prev.records[i]

-----------------------------------------------------------------------------
(* Vocabulary of the properties about main() and the file system *)

FailedCalls ==
    {"fopen_rb_failed", "fread_error", "fopen_wb_failed", "fwrite_short",
     "fputc_eof"}

\* a stdio call of the run has failed
IoFailure == \E i \in 1..Len(fio) : fio[i][1] \in FailedCalls

\* the input file was read to its end
InputRead == \E i \in 1..Len(fio) : fio[i] = <<"fread_eof", InPath>>

\* one of the known magic strings is found at offset 0 of the input file
MagicFound ==
    \E k \in 1..Len(magic_strings) :
        /\ Len(job.file) >= Len(magic_strings[k])
        /\ FileStartsWith(magic_strings[k])

\* the index given to prg_extract is not the index of a record
IndexOutOfRange ==
    /\ hist # <<>>
    /\ Last(hist) = "extract"
    /\ (xindex < 0 \/ xindex >= image.rec_used)

\* the file at the input path
InputFileNow == IF outpath = InPath /\ outfile # NoFile THEN outfile ELSE job.file

(* C13: when main() verifies an image that was read and recognised and no  *)
(* I/O operation fails, the exit code is 0, with and without fixes.        *)
C13_VerifyExitZero ==
    (/\ MainDone
     /\ hist[1] = "open"
     /\ image # NULL
     /\ ~IoFailure
     /\ ~IndexOutOfRange) => main_return = EXIT_SUCCESS

(* C14: when a run of main() hits an I/O failure, a file without a known   *)
(* magic or an extraction index that is out of range, the exit code is     *)
(* not 0.                                                                  *)
C14_FailureExitNonzero ==
    (/\ MainDone
     /\ \/ IoFailure
        \/ hist = <<"open">> /\ image = NULL
        \/ IndexOutOfRange /\ xindex >= 0) => main_return # EXIT_SUCCESS

(* C15: when none of the known magic strings is found at offset 0 of the   *)
(* file that was read, t64_open returns no image and the error code is     *)
(* T64_ERR_T64_INVALID.                                                    *)
C15_NoMagicError ==
    (/\ hist = <<"open">>
     /\ InputRead
     /\ Len(job.file) > 0
     /\ ~MagicFound) =>
        /\ image = NULL
        /\ ret = 0
        /\ t64_errno = T64_ERR_T64_INVALID

(* C16: prg_extract with index < 0 or index >= rec_used returns false,     *)
(* sets the error code T64_ERR_INDEX and writes no file; with 0 <= index   *)
(* < rec_used the error code is not T64_ERR_INDEX.                         *)
C16_ExtractIndex ==
    (hist # <<>> /\ Last(hist) = "extract") =>
        IF xindex < 0 \/ xindex >= image.rec_used
        THEN /\ ret = 0
             /\ t64_errno = T64_ERR_INDEX
             /\ prgfile = NoFile
             /\ \A i \in 1..Len(fio) : fio[i][2] # PrgPath
        ELSE t64_errno # T64_ERR_INDEX

\* prg_extract was given the index rec_used
C16_Witness ==
    /\ hist # <<>>
    /\ Last(hist) = "extract"
    /\ xindex = image.rec_used
    /\ ret = 0

\* prg_extract was given the index of the last record, wrote its file, and
\* in another run could not open the file
C16_WitnessValid ==
    /\ hist # <<>>
    /\ Last(hist) = "extract"
    /\ xindex = image.rec_used - 1
    /\ \/ ret = 1 /\ prgfile # NoFile /\ Len(prgfile.bytes) > 2
       \/ ret = 0 /\ t64_errno = T64_ERR_IO

(* C17: when reading one of the input files fails, t64_create returns no   *)
(* image and the run writes no output image.                               *)
C17_CreateAllOrNothing ==
    (hist # <<>> /\ hist[1] = "create" /\ origin = <<>> /\ IoFailure
        /\ \E i \in 1..Len(fio) :
            fio[i][1] \in {"fopen_rb_failed", "fread_error"}) =>
        /\ image = NULL
        /\ ret = 0
        /\ hist = <<"create">>
        /\ outfile = NoFile
        /\ \A i \in 1..Len(fio) : fio[i][1] \notin {"fopen_wb", "fwrite"}

\* the second file could not be read after the first one was
C17_Witness ==
    /\ hist = <<"create">>
    /\ image = NULL
    /\ Len(fio) > 3
    /\ fio[2] = <<"fread_eof", <<"arg", 1>> >>
    /\ fio[Len(fio) - 1][1] = "fread_error"

(* C18: what t64_write writes has 0x0101 at offset 0x20, rec_max at 0x22,  *)
(* rec_used at 0x24 (16 bits, little-endian) and the 24 bytes of the tape  *)
(* name at 0x28, whatever was fixed and whatever version was read.         *)
C18_HeaderWritten ==
    (hist # <<>> /\ Last(hist) = "write" /\ ret = 1) =>
        /\ outfile[33] = 1
        /\ outfile[34] = 1
        /\ outfile[35] + 256 * outfile[36] = image.rec_max
        /\ outfile[37] + 256 * outfile[38] = image.rec_used
        /\ SubSeq(outfile, 41, 64) = image.tapename

\* an image with the version 0x0100 and counts that were fixed was written
C18_Witness ==
    /\ hist = <<"open", "verify", "write">>
    /\ ret = 1
    /\ job.file[33] = 0
    /\ image.version = 256
    /\ image.fixes > 0
    /\ outfile[33] = 1

\* an image of t64_create was written
C18_WitnessCreated ==
    /\ hist = <<"create", "write">>
    /\ ret = 1
    /\ image.rec_used = MaxRec
    /\ outfile[35] = MaxRec

(* C19: in the verify flow the input file has been read to its end and     *)
(* closed before a file is opened for writing; a run that writes to the    *)
(* path of its input leaves the corrected image in that file.              *)
C19_ReadBeforeWrite ==
    (hist # <<>> /\ hist[1] = "open") =>
        /\ \A i \in 1..Len(fio) :
            fio[i][1] \in {"fopen_wb", "fopen_wb_failed"} =>
                /\ \E j \in 1..(i - 2) :
                    /\ fio[j] = <<"fread_eof", InPath>>
                    /\ fio[j + 1] = <<"fclose", InPath>>
                /\ Cardinality({ j \in 1..(i - 1) : fio[j] = <<"fopen_rb", InPath>> })
                    = Cardinality({ j \in 1..(i - 1) : fio[j] = <<"fclose", InPath>> })
        /\ (Last(hist) = "write" /\ ret = 1 /\ outpath = InPath) =>
            /\ InputFileNow = image.data
            /\ Len(InputFileNow) = Len(job.file)
            /\ SubSeq(InputFileNow, 1, 20) = c64s_magic_str

\* a run has written the image to the path of its input, which held another
\* magic
C19_Witness ==
    /\ hist = <<"open", "verify", "write">>
    /\ outpath = InPath
    /\ ret = 1
    /\ SubSeq(job.file, 1, 4) # SubSeq(outfile, 1, 4)
    /\ InputFileNow = outfile

(* C20: every byte that t64_open reads of the buffer lies inside the file  *)
(* that was read, whatever the length of the file.                         *)
C20_OpenInBounds ==
    (hist = <<"open">> /\ InputRead) => access <= Len(job.file)

-----------------------------------------------------------------------------
(* Vocabulary of the properties about t64_write *)

\* the directory of the image lies inside its data
DirInside == T64_RECORDS_OFFSET + image.rec_used * T64_RECORD_SIZE <= Len(image.data)

\* directory slot k (from 0) of data holds the fields of record r at the
\* offsets of the format: c64s_ftype +0, c1541_ftype +1, start_addr +2,
\* real_end_addr +4 (where it was assigned), offset +8, filename +0x10
SlotHolds(data, k, r) ==
    LET o == T64_RECORDS_OFFSET + k * T64_RECORD_SIZE
    IN  /\ k >= 0
        /\ o + T64_RECORD_SIZE <= Len(data)
        /\ data[o + 1] = r.c64s_ftype
        /\ data[o + 2] = r.c1541_ftype
        /\ get_uint16(data, o + 2) = r.start_addr
        /\ r.real_end_addr # Uninit => get_uint16(data, o + 4) = r.real_end_addr
        /\ get_uint32(data, o + 8) = r.offset
        /\ bytes_at(data, o + 16, T64_REC_FILENAME_LEN) = r.filename

(* C21: what t64_write produces holds every record of the image in the     *)
(* directory slot of the record's original index, at 0x40 + 32 * index,    *)
(* with container type at +0, disk type at +1, start_addr at +2,           *)
(* real_end_addr at +4, the data offset at +8 and the filename at +0x10,   *)
(* for images of t64_open and of t64_create alike.                         *)
C21_SlotOfIndex ==
    (hist # <<>> /\ Last(hist) = "write" /\ DirInside) =>
        \A i \in 1..image.rec_used :
            SlotHolds(image.data, image.records[i].index, image.records[i])

\* the same of the images that t64_open returned only
C21_OpenedSlotOfIndex ==
    (hist # <<>> /\ hist[1] = "open" /\ Last(hist) = "write" /\ DirInside) =>
        \A i \in 1..image.rec_used :
            SlotHolds(image.data, image.records[i].index, image.records[i])

\* what t64_write does: record i of the array is stored in slot i
C21_SlotOfPosition ==
    (hist # <<>> /\ Last(hist) = "write" /\ DirInside) =>
        \A i \in 1..image.rec_used :
            SlotHolds(image.data, i - 1, image.records[i])

-----------------------------------------------------------------------------
\* what t64_verify leaves of the image it was called on last when its offset
\* sort treats equal offsets the way t
VerifyOutcome(t) == t64_verify(prev, t, "stable").image

(* C22: the outcome of t64_verify on an image of t64_open (every record's  *)
(* real_end_addr, status and disk type, and the fix count) is determined   *)
(* by the image alone: it is the same whichever order the offset sort      *)
(* gives to records of equal data offset.                                  *)
C22_TieOrderIrrelevant ==
    Verified =>
        \A t \in TiePolicies :
            /\ VerifyOutcome(t).fixes = image.fixes
            /\ VerifyOutcome(t).records = image.records

\* the same of the images in which no two records share a data offset
C22_DistinctOffsets ==
    (Verified /\ \A i, j \in 1..Len(prev.records) :
                    i # j => prev.records[i].offset # prev.records[j].offset) =>
        \A t \in TiePolicies :
            /\ VerifyOutcome(t).fixes = image.fixes
            /\ VerifyOutcome(t).records = image.records

-----------------------------------------------------------------------------
\* record i of the image is the one t64_create made of the i-th file
InArgOrder ==
    \A i \in 1..Len(job.prgs) :
        /\ image.records[i].offset = 64 + 32 * Len(job.prgs) + PayloadBefore(i)
        /\ image.records[i].start_addr = LoadAddr(i)

(* C23: t64_create on n >= 2 files gives record i (from 0) the original    *)
(* index i, all indexes distinct, and after t64_verify the records of the  *)
(* created image are still in the order of the arguments.                  *)
C23_CreatedIndex ==
    (/\ hist \in { <<"create">>, <<"create", "verify">> }
     /\ image # NULL
     /\ Len(job.prgs) >= 2) =>
        /\ \A i \in 1..Len(job.prgs) : image.records[i].index = i - 1
        /\ InArgOrder

\* the order alone, after t64_verify
C23_OrderKept ==
    (hist = <<"create", "verify">> /\ image # NULL) => InArgOrder

-----------------------------------------------------------------------------
(* Vocabulary of the properties about names *)

\* position of the first character of path after its last '/'
BaseStart(path) ==
    LET seps == { i \in 1..Len(path) : path[i] = 47 }
    IN  IF seps = {} THEN 1 ELSE 1 + CHOOSE i \in seps : \A j \in seps : j <= i

\* the base name of path: without directory
BaseName(path) == SubSeq(path, BaseStart(path), Len(path))

\* the base name of path without its extension (what follows the last '.'
\* of the base name, and that '.')
Stem(path) ==
    LET b == BaseName(path)
        dots == { i \in 1..Len(b) : b[i] = 46 }
    IN  IF dots = {} THEN b
        ELSE SubSeq(b, 1, (CHOOSE i \in dots : \A j \in dots : j <= i) - 1)

HasExtension(path) == \E i \in 1..Len(BaseName(path)) : BaseName(path)[i] = 46

(* C24: t64_create sets the tape name to the base name of the destination  *)
(* path without directory and extension, cut to 24 bytes and padded with   *)
(* 0x20, for paths with and without an extension; 24 spaces when that name *)
(* is empty.                                                               *)
C24_TapeName ==
    Created => image.tapename = Pad(Stem(job.path), T64_HDR_NAME_LEN, 32)

\* the same of the destination paths that have an extension
C24_TapeNameWithExtension ==
    (Created /\ HasExtension(job.path)) =>
        image.tapename = Pad(Stem(job.path), T64_HDR_NAME_LEN, 32)

(* C25: t64_create sets the filename of each record to the PETSCII of the  *)
(* file path's base name without directory and extension, cut to 16 bytes  *)
(* and padded with 0x20.                                                   *)
C25_RecordFilename ==
    Created =>
        \A i \in 1..Len(job.prgs) :
            image.records[i].filename =
                Pad([k \in 1..Len(Stem(job.prgs[i].path)) |->
                            asc_to_pet(Stem(job.prgs[i].path)[k])],
                      T64_REC_FILENAME_LEN, 32)

\* what t64_create does: the whole base name, padded with 0x00
C25_RecordFilenameKept ==
    Created =>
        \A i \in 1..Len(job.prgs) :
            image.records[i].filename =
                Pad([k \in 1..Len(BaseName(job.prgs[i].path)) |->
                            asc_to_pet(BaseName(job.prgs[i].path)[k])],
                      T64_REC_FILENAME_LEN, 0)

-----------------------------------------------------------------------------
(* Vocabulary of the frame properties *)

\* the fields of a record that t64_read_record takes from the directory and
\* that no fix is about
Identity(r) ==
    [index |-> r.index, filename |-> r.filename, offset |-> r.offset,
     start_addr |-> r.start_addr, end_addr |-> r.end_addr,
     c64s_ftype |-> r.c64s_ftype]

(* C26: a call of t64_verify leaves the raw bytes, the size, the magic,    *)
(* the tape name and the version of the image as they were, and the        *)
(* records it leaves are the records it found with the same filename, data *)
(* offset, start_addr, end_addr, container type and index; a version other *)
(* than 0x0101 stays and counts no fix (the fixes counted are those of the *)
(* disk types and the end addresses).                                      *)
C26_VerifyFrame ==
    [][(hist' = Append(hist, "verify")) =>
        /\ image'.data = image.data
        /\ image'.size = image.size
        /\ image'.magic = image.magic
        /\ image'.tapename = image.tapename
        /\ image'.version = image.version
        /\ Len(image'.records) = Len(image.records)
        /\ \E p \in Permutations(1..Len(image.records)) :
                \A i \in 1..Len(image.records) :
                    Identity(image'.records[i]) = Identity(image.records[p[i]])
        /\ image'.fixes = image.fixes + sum_fixes(vlog')]_vars

\* t64_verify has fixed an end address and a disk type in an image of
\* version 0x0100 whose records the offset sort had moved
C26_Witness ==
    /\ hist = <<"open", "verify">>
    /\ image.version = 256
    /\ job.file[33] = 0
    /\ \E i \in 1..NLog : vlog[i].efix = 1
    /\ \E i \in 1..NLog : vlog[i].tfix = 1
    /\ \E i \in 1..NLog : vlog[i].pre.index # i - 1
    /\ image.data = job.file

-----------------------------------------------------------------------------
\* the byte at offset k (from 0) belongs to a field of the header or of one
\* of the first u directory entries
FieldByte(k, u) ==
    IF k < T64_RECORDS_OFFSET
    THEN k <= 37 \/ k >= 40
    ELSE LET e == (k - T64_RECORDS_OFFSET) \div T64_RECORD_SIZE
             b == (k - T64_RECORDS_OFFSET) % T64_RECORD_SIZE
         IN  e < u /\ (b <= 5 \/ (b >= 8 /\ b <= 11) \/ b >= 16)

(* C27: a call of t64_write changes only header bytes 0x00-0x25 and        *)
(* 0x28-0x3F and, in each of the first rec_used directory entries, bytes   *)
(* +0x00..+0x05, +0x08..+0x0B and +0x10..+0x1F; the size of the image and  *)
(* every other byte (entries beyond rec_used, unused bytes, file data) are *)
(* the same before and after.                                              *)
C27_WriteFrame ==
    [][(hist' = Append(hist, "write")) =>
        /\ image'.size = image.size
        /\ Len(image'.data) = Len(image.data)
        /\ \A k \in 1..Len(image.data) :
                ~FieldByte(k - 1, image.rec_used) =>
                    image'.data[k] = image.data[k]
        /\ [image' EXCEPT !.data = <<>>] = [image EXCEPT !.data = <<>>]]_vars

\* t64_write has stored a corrected magic and a corrected end address in an
\* image with more directory entries than records in use, whose bytes
\* outside the fields are not zero
C27_Witness ==
    /\ hist = <<"open", "verify", "write">>
    /\ image.rec_used < image.rec_max
    /\ Len(image.data) = Len(job.file)
    /\ Len(image.data) >= T64_RECORDS_OFFSET + 2 * T64_RECORD_SIZE
    /\ \E k \in 1..T64_HDR_MAGIC_LEN : image.data[k] # job.file[k]
    /\ \A k \in {39, 40, 71, 72, 77, 78, 79, 80} :
            image.data[k] = UnusedInput(1)[1] /\ job.file[k] = UnusedInput(1)[1]
    /\ SubSeq(image.data, 97, Len(image.data)) = SubSeq(job.file, 97, Len(job.file))
    /\ get_uint16(job.file, 96 + T64_REC_START_ADDR) # 0

\* t64_write has stored an end address that t64_verify corrected
C27_WitnessRecord ==
    /\ hist = <<"open", "verify", "write">>
    /\ \E i \in 1..NLog : vlog[i].efix = 1
    /\ image.data # job.file
    /\ image.data[71] = UnusedInput(1)[1]

-----------------------------------------------------------------------------
\* the records whose real_end_addr the last call has read: t64_write reads
\* it of every record in use, prg_extract of the record it writes to a file
RealEndRead ==
    IF Last(hist) = "write" THEN 1..image.rec_used
    ELSE IF Last(hist) = "extract" /\ fio # <<>> /\ Last(fio)[2] = PrgPath
    THEN {xindex + 1}
    ELSE {}

(* C28: after t64_open and t64_verify every real_end_addr that t64_write   *)
(* or prg_extract reads has been assigned before, by parsing or by repair, *)
(* for snapshot records and a last record with trailing padding as well.   *)
C28_RealEndAssigned ==
    (hist \in { <<"open", "verify", "write">>, <<"open", "verify", "extract">> }) =>
        \A i \in RealEndRead : image.records[i].real_end_addr # Uninit

\* the same of prg_extract alone
C28_ExtractAssigned ==
    (hist = <<"open", "verify", "extract">>) =>
        \A i \in RealEndRead : image.records[i].real_end_addr # Uninit

-----------------------------------------------------------------------------
\* prg_extract was the last call, after t64_open and t64_verify, and it has
\* passed a range of the image to fwrite_prg
Extracted == hist = <<"open", "verify", "extract">> /\ prgfile # NoFile

(* C29: after t64_open and t64_verify the range of bytes that prg_extract  *)
(* writes out lies inside the image: its length real_end_addr - start_addr *)
(* is not negative and the data offset plus that length does not exceed    *)
(* the size of the image.                                                  *)
C29_ExtractInside ==
    Extracted =>
        /\ prgfile.size >= 0
        /\ image.records[xindex + 1].offset + prgfile.size <= image.size
        /\ prgfile.inside

\* the same of the records whose real_end_addr t64_verify has assigned
C29_AssignedInside ==
    (Extracted /\ image.records[xindex + 1].real_end_addr # Uninit) =>
        /\ prgfile.size >= 0
        /\ image.records[xindex + 1].offset + prgfile.size <= image.size

-----------------------------------------------------------------------------
\* an image was created and written, the written file was opened and
\* verified, and prg_extract was called for one of its records
RoundTrip ==
    /\ origin = <<"create", "write">>
    /\ hist = <<"open", "verify", "extract">>
    /\ xindex \in 0..(Len(job.prgs) - 1)

\* no input file of the job reaches past the top of the address space
NoWrap == \A k \in 1..Len(job.prgs) : LoadAddr(k) + FileLen(k) - 2 <= 65535

(* C30: for PRG files of length L >= 2 with load address + L - 2 <= 0xFFFF *)
(* t64_create, t64_write, t64_open of the written bytes, t64_verify and    *)
(* prg_extract of record i yield a file with the bytes of input file i:    *)
(* its load address and then its data.                                     *)
C30_RoundTrip ==
    (RoundTrip /\ NoWrap) =>
        /\ prgfile # NoFile
        /\ prgfile.bytes = job.prgs[xindex + 1].bytes

\* the same of the jobs whose files all hold data after the load address
C30_RoundTripWithData ==
    (RoundTrip /\ NoWrap /\ \A k \in 1..Len(job.prgs) : FileLen(k) > 2) =>
        /\ prgfile # NoFile
        /\ prgfile.bytes = job.prgs[xindex + 1].bytes

====
